---- MODULE Spec2Model ----
(***************************************************************************)
(* A model of SnapPy Live Filters (src/app.py): the filter asset cache    *)
(* (load_filter_image), the compositor (overlay_filter), the six          *)
(* placement resolvers (apply_<filter>) and the dispatcher                *)
(* (apply_filter_to_frame).                                               *)
(*                                                                         *)
(* Images are functions from <<row, column>> to pixels.  A frame pixel is *)
(* a BGR triple; an asset pixel is a record with the BGR triple c and the *)
(* alpha value a (a = NoAlpha for the pixels of a 3-channel asset).       *)
(* Normalised landmark coordinates are rationals n / Den, kept as n.      *)
(***************************************************************************)
EXTENDS Integers, Sequences, FiniteSets, TLC

VARIABLES disk, filter_cache, decodes, provisions, failed, call, threads

vars == <<disk, filter_cache, decodes, provisions, failed, call, threads>>

(***************************************************************************)
(* Bounds of the model.                                                    *)
(***************************************************************************)
MaxProvision == 1
MaxDecodes == 3
NThreads == 2

\* Python's None, as a value comparable with the records of the model.
None == [kind |-> "None"]

(***************************************************************************)
(* available_filters: filter name -> file name.                            *)
(***************************************************************************)
available_filters ==
    [sunglasses |-> "sunglasses.png", hat |-> "hat.png", crown |-> "crown.png",
     mask |-> "mask.png", spiderman |-> "spiderman.png",
     full_face_mask |-> "full_face_mask.png"]

FilterNames == DOMAIN available_filters

\* Names a caller may pass: the recognised ones, an unrecognised one, and
\* None (NullName stands for it where a filter name is expected).
UnknownName == "nonexistent_filter"
NullName == "<None>"
CallNames == FilterNames \cup {UnknownName}

(***************************************************************************)
(* The files under static/filters.  disk[k] is what os.path.exists and    *)
(* cv2.imread(..., IMREAD_UNCHANGED) find for available_filters[k]:       *)
(* no file, a file that does not decode, a 3-channel or a 4-channel PNG.  *)
(***************************************************************************)
DiskStates == {"missing", "corrupt", "bgr", "bgra"}

AllMissing == [k \in FilterNames |-> "missing"]

MixedDisk ==
    [sunglasses |-> "bgra", hat |-> "bgr", crown |-> "corrupt",
     mask |-> "bgra", spiderman |-> "missing", full_face_mask |-> "missing"]

InitDisks == {AllMissing, MixedDisk}

(***************************************************************************)
(* Images.  An image is [w, h, ch, px]: px maps <<row, column>> to a      *)
(* pixel [c |-> <<b, g, r>>, a |-> alpha]; ch is 3 or 4 (shape[2]).       *)
(***************************************************************************)
NoAlpha == -1

Cells(w, h) == (0 .. h - 1) \X (0 .. w - 1)

Min(a, b) == IF a < b THEN a ELSE b
Max(a, b) == IF a > b THEN a ELSE b

\* Size of the decoded filter images of the model.
AssetW == 2
AssetH == 2

\* What cv2.imread(path, IMREAD_UNCHANGED) returns for a decodable file:
\* a 4-channel image with mixed alpha for "bgra", a 3-channel one for "bgr".
Decode(kind) ==
    [w |-> AssetW, h |-> AssetH, ch |-> IF kind = "bgra" THEN 4 ELSE 3,
     px |-> [p \in Cells(AssetW, AssetH) |->
               [c |-> <<30 + 40 * p[2], 200 - 50 * p[1], 250>>,
                a |-> IF kind = "bgra"
                        THEN (IF (p[1] + p[2]) % 2 = 0 THEN 255 ELSE 128)
                        ELSE NoAlpha]]]

\* A fully opaque 4-channel asset (alpha 255 everywhere).
OpaqueAsset ==
    [w |-> AssetW, h |-> AssetH, ch |-> 4,
     px |-> [p \in Cells(AssetW, AssetH) |->
               [c |-> <<30 + 40 * p[2], 200 - 50 * p[1], 250>>, a |-> 255]]]

(***************************************************************************)
(* cv2.resize(src, (dw, dh), interpolation=INTER_LINEAR) on 8-bit data:   *)
(* half-pixel-centred bilinear interpolation with 11-bit fixed-point      *)
(* weights, clamped at the borders; an exact 2x2 decimation takes the     *)
(* area path (mean of each 2x2 block, rounded).                           *)
(***************************************************************************)
\* Source index pair and weights for destination index d (sn -> dn samples).
ResizeCoef(d, sn, dn) ==
    LET num == (2 * d + 1) * sn - dn
        s   == num \div (2 * dn)
        fr  == num % (2 * dn)
        s0  == IF s < 0 THEN 0 ELSE IF s >= sn - 1 THEN sn - 1 ELSE s
        f   == IF s < 0 \/ s >= sn - 1 THEN 0 ELSE fr
        w1  == (f * 2 * 2048 + 2 * dn) \div (4 * dn)
    IN  [s0 |-> s0, s1 |-> Min(s0 + 1, sn - 1), w0 |-> 2048 - w1, w1 |-> w1]

\* The horizontal pass on row r with the coefficients cx, and the vertical
\* pass on two such rows with the coefficients cy.  V(r, c) is the source
\* channel value at row r, column c.
HResize(V(_, _), cx, r) == V(r, cx.s0) * cx.w0 + V(r, cx.s1) * cx.w1

VResize(V(_, _), cx, cy) ==
    (((cy.w0 * (HResize(V, cx, cy.s0) \div 16)) \div 65536)
     + ((cy.w1 * (HResize(V, cx, cy.s1) \div 16)) \div 65536) + 2) \div 4

\* One channel of the resized image at <<y, x>>.
ResizeChannel(V(_, _), sw, sh, dw, dh, y, x) ==
    IF 2 * dw = sw /\ 2 * dh = sh
      THEN (V(2 * y, 2 * x) + V(2 * y, 2 * x + 1)
            + V(2 * y + 1, 2 * x) + V(2 * y + 1, 2 * x + 1) + 2) \div 4
      ELSE VResize(V, ResizeCoef(x, sw, dw), ResizeCoef(y, sh, dh))

\* cv2.resize: defined for dw > 0 and dh > 0 (it raises otherwise).
Resize(img, dw, dh) ==
    [w |-> dw, h |-> dh, ch |-> img.ch,
     px |-> [p \in Cells(dw, dh) |->
        LET B(r, c) == img.px[<<r, c>>].c[1]
            G(r, c) == img.px[<<r, c>>].c[2]
            R(r, c) == img.px[<<r, c>>].c[3]
            A(r, c) == img.px[<<r, c>>].a
        IN [c |-> <<ResizeChannel(B, img.w, img.h, dw, dh, p[1], p[2]),
                    ResizeChannel(G, img.w, img.h, dw, dh, p[1], p[2]),
                    ResizeChannel(R, img.w, img.h, dw, dh, p[1], p[2])>>,
            a |-> IF img.ch = 4
                    THEN ResizeChannel(A, img.w, img.h, dw, dh, p[1], p[2])
                    ELSE NoAlpha]]]

(***************************************************************************)
(* cv2.getRotationMatrix2D(center, angle, 1.0) followed by                *)
(* cv2.warpAffine(img, M, (w, h), INTER_LINEAR, BORDER_TRANSPARENT), for  *)
(* the right angles, where the inverse map sends the pixel grid onto      *)
(* itself.  SourceOf gives the source <<row, column>> of a destination    *)
(* cell.  No destination image is passed, so warpAffine allocates one and *)
(* BORDER_TRANSPARENT leaves every cell without a source untouched: those *)
(* cells hold uninitialised memory (the pixel env.u).  Whether a source   *)
(* on the last row or column still counts depends on the OpenCV build     *)
(* (env.edge).                                                            *)
(***************************************************************************)
RightAngles == {90, 180, -90}

SourceOf(angle, w, h, p) ==
    LET cx == w \div 2
        cy == h \div 2
        yd == p[1]
        xd == p[2]
    IN  CASE angle = 90  -> <<xd - cx + cy, cx + cy - yd>>
          [] angle = 180 -> <<2 * cy - yd, 2 * cx - xd>>
          [] angle = -90 -> <<cx + cy - xd, yd + cx - cy>>

WarpAffine(img, angle, env) ==
    [img EXCEPT !.px = [p \in Cells(img.w, img.h) |->
        LET s == SourceOf(angle, img.w, img.h, p)
            inside == s[1] >= 0 /\ s[1] < img.h /\ s[2] >= 0 /\ s[2] < img.w
            onEdge == inside /\ (s[1] = img.h - 1 \/ s[2] = img.w - 1)
        IN  IF inside /\ (~onEdge \/ env.edge)
              THEN img.px[s]
              ELSE [c |-> env.u.c, a |-> IF img.ch = 4 THEN env.u.a ELSE NoAlpha]]]

\* The contents an untouched cell may hold, and the build's edge rule.
UninitPixels == {[c |-> <<0, 0, 0>>, a |-> 0], [c |-> <<9, 99, 199>>, a |-> 77]}

Envs == [edge : BOOLEAN, u : UninitPixels]

(***************************************************************************)
(* load_filter_image(filter_name), run against the cache `cache` and the  *)
(* decode counts `dec`.  The result holds the returned value, the cache   *)
(* and counts afterwards, and whether the call looked at the disk         *)
(* (os.path.exists) and whether it ran cv2.imread.  A decoded image is a  *)
(* fresh object: id names it (the key and the ordinal of the decode).     *)
(***************************************************************************)
NewAsset(k, dec) ==
    [kind |-> "img", id |-> <<k, dec[k] + 1>>, img |-> Decode(disk[k])]

\* Variants of load_filter_image with a fault: the first never looks in
\* the cache, the second records a failed load in the cache.
load_filter_image_always_reads(filter_name, cache, dec) ==
    IF filter_name \notin DOMAIN available_filters \/ disk[filter_name] = "missing"
      THEN [ret |-> None, cache |-> cache, dec |-> dec,
            probed |-> filter_name \in DOMAIN available_filters, read |-> FALSE]
    ELSE IF disk[filter_name] = "corrupt"
      THEN [ret |-> None, cache |-> cache, dec |-> dec,
            probed |-> TRUE, read |-> TRUE]
    ELSE [ret |-> NewAsset(filter_name, dec),
          cache |-> [k \in DOMAIN cache \cup {filter_name} |->
                       IF k = filter_name THEN NewAsset(filter_name, dec)
                                          ELSE cache[k]],
          dec |-> [dec EXCEPT ![filter_name] = @ + 1],
          probed |-> TRUE, read |-> TRUE]

load_filter_image_caches_failure(filter_name, cache, dec) ==
    IF filter_name \notin DOMAIN available_filters
      THEN [ret |-> None, cache |-> cache, dec |-> dec,
            probed |-> FALSE, read |-> FALSE]
    ELSE IF filter_name \in DOMAIN cache
      THEN [ret |-> cache[filter_name], cache |-> cache, dec |-> dec,
            probed |-> FALSE, read |-> FALSE]
    ELSE IF disk[filter_name] \in {"missing", "corrupt"}
      THEN [ret |-> None,
            cache |-> [k \in DOMAIN cache \cup {filter_name} |->
                         IF k = filter_name THEN None ELSE cache[k]],
            dec |-> dec, probed |-> TRUE, read |-> disk[filter_name] = "corrupt"]
    ELSE [ret |-> NewAsset(filter_name, dec),
          cache |-> [k \in DOMAIN cache \cup {filter_name} |->
                       IF k = filter_name THEN NewAsset(filter_name, dec)
                                          ELSE cache[k]],
          dec |-> [dec EXCEPT ![filter_name] = @ + 1],
          probed |-> TRUE, read |-> TRUE]

load_filter_image(filter_name, cache, dec) ==
    IF filter_name \notin DOMAIN available_filters
      THEN [ret |-> None, cache |-> cache, dec |-> dec,
            probed |-> FALSE, read |-> FALSE]
    ELSE IF filter_name \in DOMAIN cache
      THEN [ret |-> cache[filter_name], cache |-> cache, dec |-> dec,
            probed |-> FALSE, read |-> FALSE]
    ELSE IF disk[filter_name] = "missing"
      THEN [ret |-> None, cache |-> cache, dec |-> dec,
            probed |-> TRUE, read |-> FALSE]
    ELSE IF disk[filter_name] = "corrupt"
      THEN [ret |-> None, cache |-> cache, dec |-> dec,
            probed |-> TRUE, read |-> TRUE]
    ELSE LET filter_img == NewAsset(filter_name, dec)
         IN  [ret |-> filter_img,
              cache |-> [k \in DOMAIN cache \cup {filter_name} |->
                           IF k = filter_name THEN filter_img ELSE cache[k]],
              dec |-> [dec EXCEPT ![filter_name] = @ + 1],
              probed |-> TRUE, read |-> TRUE]

(***************************************************************************)
(* The blend of overlay_filter.  alpha is the opacity in hundredths       *)
(* (0.9 is 90).  With an alpha channel the weight of the asset pixel is   *)
(* a / 255 * alpha / 100 and the result is truncated (astype(uint8));     *)
(* without one cv2.addWeighted rounds to nearest.  The weights are        *)
(* evaluated exactly here; the floating-point evaluation of the code is   *)
(* the same wherever the weight is 0 or 1 (opacity 0.0, or opacity 1.0    *)
(* on a pixel of alpha 0 or 255).                                         *)
(***************************************************************************)
\* A variant of the alpha-channel blend that scales the channel by 256.
BlendAlphaChannel_by_256(f, g, a, alpha) ==
    (f * (25600 - a * alpha) + g * a * alpha) \div 25600

BlendAlphaChannel(f, g, a, alpha) ==
    (f * (25500 - a * alpha) + g * a * alpha) \div 25500

\* A variant of cv2.addWeighted with the two weights exchanged.
AddWeighted_swapped(f, g, alpha) ==
    (f * alpha + g * (100 - alpha) + 50) \div 100

AddWeighted(f, g, alpha) ==
    (f * (100 - alpha) + g * alpha + 50) \div 100

Blend(fpx, gpx, ch, alpha) ==
    IF ch = 4
      THEN [i \in 1 .. 3 |-> BlendAlphaChannel(fpx[i], gpx.c[i], gpx.a, alpha)]
      ELSE [i \in 1 .. 3 |-> AddWeighted(fpx[i], gpx.c[i], alpha)]

(***************************************************************************)
(* overlay_filter(frame, filter_img, x, y, width, height, angle, alpha).  *)
(* frame is [w, h, px] with px a function from <<row, column>> to BGR     *)
(* triples.  The result is [status, frame, past, rect]: status "raised"   *)
(* when cv2.resize rejects the size (width or height not positive),       *)
(* past = TRUE when the call got past the out-of-frame return, rect the   *)
(* intersection rectangles it computed.                                   *)
(***************************************************************************)
NoRect == [kind |-> "None"]

\* Lines 165-175: the resized and, for a non-zero angle, rotated asset.
TransformAsset(filter_img, width, height, angle, env) ==
    IF angle # 0 THEN WarpAffine(Resize(filter_img, width, height), angle, env)
                 ELSE Resize(filter_img, width, height)

\* Lines 187-216: the blend of filter_resized, whose top-left corner is at
\* <<x1, y1>> and bottom-right corner at <<x2, y2>>, into the frame.
Composite(frame, filter_resized, x1, y1, x2, y2, alpha) ==
    LET frame_x1 == Max(0, x1)
        frame_y1 == Max(0, y1)
        frame_x2 == Min(frame.w, x2)
        frame_y2 == Min(frame.h, y2)
        filter_x1 == Max(0, -x1)
        filter_y1 == Max(0, -y1)
    IN  [status |-> "returned",
         frame |-> [frame EXCEPT !.px = [p \in Cells(frame.w, frame.h) |->
             IF /\ Max(0, y1) <= p[1] /\ p[1] < Min(frame.h, y2)
                /\ Max(0, x1) <= p[2] /\ p[2] < Min(frame.w, x2)
               THEN Blend(frame.px[p],
                          filter_resized.px[<<Max(0, -y1) + (p[1] - Max(0, y1)),
                                              Max(0, -x1) + (p[2] - Max(0, x1))>>],
                          filter_resized.ch, alpha)
               ELSE frame.px[p]]],
         past |-> TRUE,
         rect |-> [kind |-> "rect",
                   frame_x1 |-> frame_x1, frame_y1 |-> frame_y1,
                   frame_x2 |-> frame_x2, frame_y2 |-> frame_y2,
                   filter_x1 |-> filter_x1, filter_y1 |-> filter_y1,
                   filter_x2 |-> filter_x1 + (frame_x2 - frame_x1),
                   filter_y2 |-> filter_y1 + (frame_y2 - frame_y1)]]

\* A variant of the out-of-frame return with strict comparisons.
Place_strict_bounds(frame, filter_resized, x1, y1, width, height, alpha) ==
    IF x1 + width < 0 \/ y1 + height < 0 \/ x1 > frame.w \/ y1 > frame.h
      THEN [status |-> "returned", frame |-> frame, past |-> FALSE, rect |-> NoRect]
      ELSE Composite(frame, filter_resized, x1, y1, x1 + width, y1 + height, alpha)

\* Lines 177-185: the placed box and the out-of-frame return.
Place(frame, filter_resized, x1, y1, width, height, alpha) ==
    IF x1 + width <= 0 \/ y1 + height <= 0 \/ x1 >= frame.w \/ y1 >= frame.h
      THEN [status |-> "returned", frame |-> frame, past |-> FALSE, rect |-> NoRect]
      ELSE Composite(frame, filter_resized, x1, y1, x1 + width, y1 + height, alpha)

\* A variant of overlay_filter that takes <<x, y>> for the top-left corner.
overlay_filter_corner_anchored(frame, filter_img, x, y, width, height, angle, alpha, env) ==
    IF width <= 0 \/ height <= 0
      THEN [status |-> "raised", frame |-> frame, past |-> FALSE, rect |-> NoRect]
      ELSE Place(frame, TransformAsset(filter_img, width, height, angle, env),
                 x, y, width, height, alpha)

overlay_filter(frame, filter_img, x, y, width, height, angle, alpha, env) ==
    IF width <= 0 \/ height <= 0
      THEN [status |-> "raised", frame |-> frame, past |-> FALSE, rect |-> NoRect]
      ELSE Place(frame, TransformAsset(filter_img, width, height, angle, env),
                 x - (width \div 2), y - (height \div 2), width, height, alpha)

(***************************************************************************)
(* The arrays a call of overlay_filter writes.  The call works on two     *)
(* arrays of its caller, "frame" and "filter_img" (the object the cache   *)
(* holds), and on arrays of its own: cv2.resize (line 166) and            *)
(* cv2.warpAffine (line 172) are called without a destination and return  *)
(* new arrays, the slices of lines 199-200 and 205-206 are views that are  *)
(* only read, the blend (lines 209, 212) yields a new array, and the one   *)
(* subscripted assignment (line 214) stores into frame.                    *)
(***************************************************************************)
\* A variant in which cv2.resize is given filter_img as its destination.
WrittenArrays_resize_in_place(frame, x, y, width, height, angle) ==
    IF width <= 0 \/ height <= 0 THEN {}
    ELSE {"filter_img"}
           \cup (IF angle # 0 THEN {"rotated"} ELSE {})
           \cup (IF \/ x - (width \div 2) + width <= 0
                    \/ y - (height \div 2) + height <= 0
                    \/ x - (width \div 2) >= frame.w
                    \/ y - (height \div 2) >= frame.h
                   THEN {}
                   ELSE {"blended", "frame"})

WrittenArrays(frame, x, y, width, height, angle) ==
    IF width <= 0 \/ height <= 0 THEN {}
    ELSE {"resized"}
           \cup (IF angle # 0 THEN {"rotated"} ELSE {})
           \cup (IF \/ x - (width \div 2) + width <= 0
                    \/ y - (height \div 2) + height <= 0
                    \/ x - (width \div 2) >= frame.w
                    \/ y - (height \div 2) >= frame.h
                   THEN {}
                   ELSE {"blended", "frame"})

\* The contents of the caller's filter_img after the call: what the
\* resize left in it if the call wrote it, else what it held.
AssetAfter(filter_img, written, width, height) ==
    IF "filter_img" \in written THEN Resize(filter_img, width, height)
                                ELSE filter_img

(***************************************************************************)
(* Geometry.  calculate_distance returns sqrt(dx^2 + dy^2) as a float;    *)
(* the model keeps the squared distance and evaluates int(d * num / den)  *)
(* exactly as the integer square root of d^2 * num^2 / den^2.             *)
(***************************************************************************)
RECURSIVE ISqrtBetween(_, _, _)
\* The largest n in lo .. hi with n * n <= t (lo * lo <= t).
ISqrtBetween(lo, hi, t) ==
    IF lo >= hi THEN lo
    ELSE LET mid == (lo + hi + 1) \div 2
         IN  IF mid * mid <= t THEN ISqrtBetween(mid, hi, t)
                               ELSE ISqrtBetween(lo, mid - 1, t)

\* The root is sought below 46340, the largest number whose square is a
\* 32-bit integer.
ISqrt(t) == ISqrtBetween(0, Min(t, 46340), t)

\* Squared Euclidean distance of two pixel points (calculate_distance,
\* np.linalg.norm).
calculate_distance(point1, point2) ==
    (point1[1] - point2[1]) * (point1[1] - point2[1])
    + (point1[2] - point2[2]) * (point1[2] - point2[2])

\* int(d * num / den) for the distance d with square d2 (the factors of
\* the resolvers are given in lowest terms: 2.2 is 11 / 5).
ScaleDist(d2, num, den) == ISqrt((d2 * num * num) \div (den * den))

\* int(base - d * num / den): int() truncates towards zero.
TruncSub(base, d2, num, den) ==
    LET fl == ScaleDist(d2, num, den)
        exact == fl * fl * den * den = d2 * num * num
    IN  IF base >= fl + (IF exact THEN 0 ELSE 1)
          THEN base - fl - (IF exact THEN 0 ELSE 1)
          ELSE base - fl

\* calculate_angle: degrees(arctan2(dy, dx)), for the vectors parallel to
\* an axis, where the value is an exact number of degrees.
calculate_angle(point1, point2) ==
    LET dx == point2[1] - point1[1]
        dy == point2[2] - point1[2]
    IN  CASE dy = 0 /\ dx >= 0 -> 0
          [] dy = 0 /\ dx < 0  -> 180
          [] dx = 0 /\ dy > 0  -> 90
          [] dx = 0 /\ dy < 0  -> -90

(***************************************************************************)
(* Landmarks.  A landmark set is [len, pt]: len is len(landmarks.landmark)*)
(* and pt[i] the normalised point <<x, y>> of landmark i, each coordinate *)
(* a numerator over Den.  Reading landmarks.landmark[idx] with            *)
(* idx >= len raises IndexError.                                          *)
(***************************************************************************)
Den == 60

LANDMARKS ==
    [chin |-> 18, jaw_left |-> 172, jaw_right |-> 397,
     left_eye_left |-> 33, left_eye_right |-> 133, left_eye_top |-> 159,
     left_eye_bottom |-> 145, left_eye_center |-> 468,
     right_eye_left |-> 362, right_eye_right |-> 263, right_eye_top |-> 386,
     right_eye_bottom |-> 374, right_eye_center |-> 469,
     nose_tip |-> 1, nose_bridge_top |-> 6, nose_left |-> 131,
     nose_right |-> 360, mouth_left |-> 61, mouth_right |-> 291,
     mouth_top |-> 13, mouth_bottom |-> 14, mouth_center_top |-> 13,
     mouth_center_bottom |-> 14, forehead |-> 10, left_ear |-> 234,
     right_ear |-> 454, head_top |-> 10]

IndexError == [kind |-> "IndexError"]

LandmarkAt(landmarks, idx) ==
    IF idx < landmarks.len THEN landmarks.pt[idx] ELSE IndexError

\* A variant of get_landmark_point whose range test is off by one.
get_landmark_point_off_by_one(landmarks, idx) ==
    IF idx > landmarks.len THEN None ELSE LandmarkAt(landmarks, idx)

get_landmark_point(landmarks, idx) ==
    IF idx >= landmarks.len THEN None ELSE LandmarkAt(landmarks, idx)

\* (int(p[0] * frame_width), int(p[1] * frame_height))
ToPixel(p, frame_width, frame_height) ==
    <<(p[1] * frame_width) \div Den, (p[2] * frame_height) \div Den>>

(***************************************************************************)
(* The placements the six resolvers compute: Insufficient when the        *)
(* resolver returns the frame for want of a landmark, Raised when a       *)
(* landmark read is out of range, else the arguments it passes to         *)
(* overlay_filter.                                                         *)
(***************************************************************************)
Insufficient == [kind |-> "Insufficient"]
Raised == [kind |-> "Raised"]

Placement(x, y, width, height, angle, alpha) ==
    [kind |-> "Placement", x |-> x, y |-> y, width |-> width,
     height |-> height, angle |-> angle, alpha |-> alpha]

\* The landmark reads of a resolver: get_landmark_point for each index.
GetPoints(landmarks, indices) ==
    [i \in DOMAIN indices |-> get_landmark_point(landmarks, indices[i])]

\* apply_mask and apply_spiderman test the indices themselves
\* (any(idx >= len(landmarks.landmark) ...)) and then read
\* landmarks.landmark[idx] directly.
DirectPoints(landmarks, indices) ==
    IF \E i \in DOMAIN indices : indices[i] >= landmarks.len
      THEN [i \in DOMAIN indices |-> None]
      ELSE [i \in DOMAIN indices |-> LandmarkAt(landmarks, indices[i])]

\* not all([...]): some landmark is missing.
Missing(points) == \E i \in DOMAIN points : points[i] = None
OutOfRange(points) == \E i \in DOMAIN points : points[i] = IndexError

\* The pixel points of the landmarks read.
Pixels(points, frame_width, frame_height) ==
    [i \in DOMAIN points |-> ToPixel(points[i], frame_width, frame_height)]

\* A variant of the sunglasses geometry that is twice the eye distance wide.
SunglassesGeometry_double_width(px) ==
    Placement((px[1][1] + px[4][1]) \div 2, (px[1][2] + px[4][2]) \div 2,
              ScaleDist(calculate_distance(px[1], px[4]), 2, 1),
              ScaleDist(calculate_distance(px[1], px[4]), 3, 5),
              calculate_angle(px[1], px[4]), 90)

\* apply_sunglasses, lines 235-252, from the pixel points
\* <<left_eye_left, left_eye_right, right_eye_left, right_eye_right>>.
SunglassesGeometry(px) ==
    Placement((px[1][1] + px[4][1]) \div 2, (px[1][2] + px[4][2]) \div 2,
              ScaleDist(calculate_distance(px[1], px[4]), 11, 5),
              ScaleDist(calculate_distance(px[1], px[4]), 3, 5),
              calculate_angle(px[1], px[4]), 90)

\* apply_hat, lines 270-286, from <<forehead, left_ear, right_ear>>.
HatGeometry(px) ==
    Placement(px[1][1], TruncSub(px[1][2], calculate_distance(px[2], px[3]), 3, 10),
              ScaleDist(calculate_distance(px[2], px[3]), 9, 5),
              ScaleDist(calculate_distance(px[2], px[3]), 6, 5),
              calculate_angle(px[2], px[3]), 90)

\* apply_crown, lines 304-320, from <<forehead, left_ear, right_ear>>.
CrownGeometry(px) ==
    Placement(px[1][1], TruncSub(px[1][2], calculate_distance(px[2], px[3]), 2, 5),
              ScaleDist(calculate_distance(px[2], px[3]), 3, 2),
              ScaleDist(calculate_distance(px[2], px[3]), 1, 1),
              calculate_angle(px[2], px[3]), 90)

\* apply_mask, lines 345-367, from <<nose_tip, chin, right_cheek, left_cheek>>.
MaskGeometry(px) ==
    Placement((px[1][1] + px[2][1]) \div 2,
              px[1][2] + ScaleDist(calculate_distance(px[1], px[2]), 3, 10),
              ScaleDist(calculate_distance(px[4], px[3]), 8, 5),
              ScaleDist(calculate_distance(px[1], px[2]), 2, 1),
              0, 95)

\* apply_spiderman, lines 390-412, from <<chin, forehead, left_side, right_side>>.
SpidermanGeometry(px) ==
    Placement((px[3][1] + px[4][1]) \div 2,
              ((px[2][2] + px[1][2]) \div 2)
                - ScaleDist(calculate_distance(px[2], px[1]), 1, 20),
              ScaleDist(calculate_distance(px[4], px[3]), 7, 5),
              ScaleDist(calculate_distance(px[2], px[1]), 31, 20),
              0, 95)

\* apply_full_face_mask, lines 431-448, from
\* <<chin, forehead, left_ear, right_ear>>.
FullFaceMaskGeometry(px) ==
    Placement((px[3][1] + px[4][1]) \div 2, (px[2][2] + px[1][2]) \div 2,
              ScaleDist(calculate_distance(px[3], px[4]), 11, 5),
              ScaleDist(calculate_distance(px[2], px[1]), 9, 5),
              calculate_angle(px[3], px[4]), 90)

\* The landmark indices each resolver reads, in the order above.
SunglassesIndices ==
    <<LANDMARKS.left_eye_left, LANDMARKS.left_eye_right,
      LANDMARKS.right_eye_left, LANDMARKS.right_eye_right>>
HatIndices == <<LANDMARKS.forehead, LANDMARKS.left_ear, LANDMARKS.right_ear>>
MaskIndices == <<1, 152, 234, 454>>
SpidermanIndices == <<152, 10, 234, 454>>
FullFaceMaskIndices ==
    <<LANDMARKS.chin, LANDMARKS.forehead, LANDMARKS.left_ear, LANDMARKS.right_ear>>

\* The points a resolver read and the part of it that follows them.
PlacementOf(name, px) ==
    CASE name = "sunglasses" -> SunglassesGeometry(px)
      [] name = "hat" -> HatGeometry(px)
      [] name = "crown" -> CrownGeometry(px)
      [] name = "mask" -> MaskGeometry(px)
      [] name = "spiderman" -> SpidermanGeometry(px)
      [] name = "full_face_mask" -> FullFaceMaskGeometry(px)

PointsOf(name, landmarks) ==
    CASE name = "sunglasses" -> GetPoints(landmarks, SunglassesIndices)
      [] name \in {"hat", "crown"} -> GetPoints(landmarks, HatIndices)
      [] name = "mask" -> DirectPoints(landmarks, MaskIndices)
      [] name = "spiderman" -> DirectPoints(landmarks, SpidermanIndices)
      [] name = "full_face_mask" -> GetPoints(landmarks, FullFaceMaskIndices)

\* From the landmark reads to the placement: the early return of the
\* resolver, the IndexError of an out-of-range read, or its geometry.
Resolve(name, points, frame_width, frame_height) ==
    IF Missing(points) THEN Insufficient
    ELSE IF OutOfRange(points) THEN Raised
    ELSE PlacementOf(name, Pixels(points, frame_width, frame_height))

(***************************************************************************)
(* The tail shared by the six apply_<filter> functions: after the         *)
(* placement is computed, load the asset and, when there is one, call     *)
(* overlay_filter.  st is the state a frame-processing call works on:     *)
(* the frame, the cache, the decode counts, whether an exception has      *)
(* been raised, and how often the cache and the compositor were called.   *)
(***************************************************************************)
\* written is the set of arrays the call of overlay_filter wrote and asset
\* the contents it left in the array it was given as filter_img, which is
\* the object ld.ret of the cache.
AfterOverlay(st, ld, r, written, asset) ==
    [st EXCEPT !.cache = [k \in DOMAIN ld.cache |->
                            IF ld.cache[k].id = ld.ret.id
                              THEN [ld.cache[k] EXCEPT !.img = asset]
                              ELSE ld.cache[k]],
               !.dec = ld.dec, !.loads = @ + 1,
               !.frame = r.frame, !.status = r.status, !.overlays = @ + 1,
               !.written = @ \cup written]

\* The call overlay_filter(frame, filter_img, x, y, width, height, angle,
\* alpha) of a resolver, by its result and its writes.
CallOverlay(st, ld, pl, env, written) ==
    AfterOverlay(st, ld,
                 overlay_filter(st.frame, ld.ret.img, pl.x, pl.y, pl.width,
                                pl.height, pl.angle, pl.alpha, env),
                 written,
                 AssetAfter(ld.ret.img, written, pl.width, pl.height))

AfterLoad(st, ld, pl, env) ==
    IF ld.ret = None
      THEN [st EXCEPT !.cache = ld.cache, !.dec = ld.dec, !.loads = @ + 1]
      ELSE CallOverlay(st, ld, pl, env,
                       WrittenArrays(st.frame, pl.x, pl.y, pl.width, pl.height,
                                     pl.angle))

ApplyPlacement(name, pl, st, env) ==
    IF pl = Insufficient THEN st
    ELSE IF pl = Raised THEN [st EXCEPT !.status = "raised"]
    ELSE AfterLoad(st, load_filter_image(name, st.cache, st.dec), pl, env)

\* apply_<filter>(frame, landmarks, frame_width, frame_height)
ApplyResolver(name, st, landmarks, frame_width, frame_height, env) ==
    ApplyPlacement(name,
                   Resolve(name, PointsOf(name, landmarks), frame_width, frame_height),
                   st, env)

apply_sunglasses(st, landmarks, frame_width, frame_height, env) ==
    ApplyResolver("sunglasses", st, landmarks, frame_width, frame_height, env)

apply_hat(st, landmarks, frame_width, frame_height, env) ==
    ApplyResolver("hat", st, landmarks, frame_width, frame_height, env)

apply_crown(st, landmarks, frame_width, frame_height, env) ==
    ApplyResolver("crown", st, landmarks, frame_width, frame_height, env)

apply_mask(st, landmarks, frame_width, frame_height, env) ==
    ApplyResolver("mask", st, landmarks, frame_width, frame_height, env)

apply_spiderman(st, landmarks, frame_width, frame_height, env) ==
    ApplyResolver("spiderman", st, landmarks, frame_width, frame_height, env)

apply_full_face_mask(st, landmarks, frame_width, frame_height, env) ==
    ApplyResolver("full_face_mask", st, landmarks, frame_width, frame_height, env)

\* The branch of the dispatcher's if/elif chain for one face.
ApplyOne(filter_name, st, landmarks, frame_width, frame_height, env) ==
    CASE filter_name = "sunglasses" ->
           apply_sunglasses(st, landmarks, frame_width, frame_height, env)
      [] filter_name = "hat" ->
           apply_hat(st, landmarks, frame_width, frame_height, env)
      [] filter_name = "crown" ->
           apply_crown(st, landmarks, frame_width, frame_height, env)
      [] filter_name = "mask" ->
           apply_mask(st, landmarks, frame_width, frame_height, env)
      [] filter_name = "spiderman" ->
           apply_spiderman(st, landmarks, frame_width, frame_height, env)
      [] filter_name = "full_face_mask" ->
           apply_full_face_mask(st, landmarks, frame_width, frame_height, env)
      [] OTHER -> st

(***************************************************************************)
(* The loop of apply_filter_to_frame over results.multi_face_landmarks,   *)
(* from face i on.  trace records, for each face the loop reached, the    *)
(* frame after it and whether its resolver raised.                        *)
(***************************************************************************)
Traced(nx) ==
    [nx EXCEPT !.trace = Append(@, [after |-> nx.frame, status |-> nx.status])]

RECURSIVE RunFaces(_, _, _, _, _, _, _)
RunFaces(filter_name, st, faces, i, frame_width, frame_height, env) ==
    IF i > Len(faces) \/ st.status = "raised" THEN st
    ELSE RunFaces(filter_name,
                  Traced(ApplyOne(filter_name, st, faces[i], frame_width,
                                  frame_height, env)),
                  faces, i + 1, frame_width, frame_height, env)

(***************************************************************************)
(* apply_filter_to_frame(frame, filter_name, faces).  detected is what    *)
(* face_mesh.process reports for the frame (results.multi_face_landmarks, *)
(* the empty sequence when it is None).  The result is the final state of *)
(* the call, with the count it returns and whether the detector ran.      *)
(***************************************************************************)
StartState(frame, cache, dec) ==
    [frame |-> frame, cache |-> cache, dec |-> dec, status |-> "returned",
     loads |-> 0, overlays |-> 0, trace |-> <<>>, written |-> {}]

\* Variants of apply_filter_to_frame with a fault: the first tests the
\* filter name for None only, the second counts the faces it composited.
apply_filter_to_frame_null_only(frame, filter_name, faces, detected, cache, dec, env) ==
    IF filter_name = NullName
      THEN [st |-> StartState(frame, cache, dec), count |-> 0, detect_ran |-> FALSE]
    ELSE IF detected # <<>>
      THEN [st |-> RunFaces(filter_name, StartState(frame, cache, dec), detected, 1,
                            frame.w, frame.h, env),
            count |-> Len(detected), detect_ran |-> TRUE]
      ELSE [st |-> StartState(frame, cache, dec), count |-> 0, detect_ran |-> TRUE]

apply_filter_to_frame_counts_blends(frame, filter_name, faces, detected, cache, dec, env) ==
    IF filter_name = NullName \/ filter_name \notin DOMAIN available_filters
      THEN [st |-> StartState(frame, cache, dec), count |-> 0, detect_ran |-> FALSE]
    ELSE IF detected # <<>>
      THEN LET r == RunFaces(filter_name, StartState(frame, cache, dec), detected, 1,
                             frame.w, frame.h, env)
           IN  [st |-> r, count |-> r.overlays, detect_ran |-> TRUE]
      ELSE [st |-> StartState(frame, cache, dec), count |-> 0, detect_ran |-> TRUE]

apply_filter_to_frame(frame, filter_name, faces, detected, cache, dec, env) ==
    IF filter_name = NullName \/ filter_name \notin DOMAIN available_filters
      THEN [st |-> StartState(frame, cache, dec), count |-> 0, detect_ran |-> FALSE]
    ELSE IF detected # <<>>
      THEN [st |-> RunFaces(filter_name, StartState(frame, cache, dec), detected, 1,
                            frame.w, frame.h, env),
            count |-> Len(detected), detect_ran |-> TRUE]
      ELSE [st |-> StartState(frame, cache, dec), count |-> 0, detect_ran |-> TRUE]

(***************************************************************************)
(* The inputs of the model.                                                *)
(***************************************************************************)
FrameW == 6
FrameH == 4
MaxFaces == 2

GradientFrame ==
    [w |-> FrameW, h |-> FrameH,
     px |-> [p \in Cells(FrameW, FrameH) |->
               <<10 * p[2] + 5, 20 * p[1] + 3, 100 + p[1] + p[2]>>]]

\* FaceMesh with refine_landmarks=True reports FullLen landmarks a face.
FullLen == 478

UsedIndices == {1, 10, 18, 33, 133, 152, 234, 263, 362, 454}

\* A landmark set of length len with the left-side landmarks at l, the
\* right-side ones at r, the forehead at t, the chin at b, the nose at n.
MkFace(len, l, r, t, b, n) ==
    [len |-> len,
     pt |-> [i \in UsedIndices |->
               CASE i \in {33, 133, 234} -> l
                 [] i \in {362, 263, 454} -> r
                 [] i = 10 -> t
                 [] i \in {152, 18} -> b
                 [] OTHER -> n]]

\* An upright face, a face whose landmarks all fall on one pixel, the
\* upright face from a detector reporting landmarks 0 .. 453 only, and a
\* face lying on its side at the right border of the frame (x = 1.0).
LevelFace == MkFace(FullLen, <<10, 20>>, <<40, 20>>, <<25, 5>>, <<25, 50>>, <<25, 30>>)
PointFace == MkFace(FullLen, <<30, 30>>, <<30, 30>>, <<30, 30>>, <<30, 30>>, <<30, 30>>)
ShortFace ==
    MkFace(LANDMARKS.right_ear, <<10, 20>>, <<40, 20>>, <<25, 5>>, <<25, 50>>, <<25, 30>>)
BorderFace == MkFace(FullLen, <<60, 30>>, <<60, 45>>, <<60, 15>>, <<60, 45>>, <<60, 30>>)

FaceSet == {LevelFace, PointFace, ShortFace, BorderFace}

RECURSIVE SeqsUpTo(_, _)
SeqsUpTo(S, n) ==
    IF n = 0 THEN {<<>>}
    ELSE LET shorter == SeqsUpTo(S, n - 1)
         IN  shorter \cup {Append(q, e) : q \in shorter, e \in S}

FaceLists == SeqsUpTo(FaceSet, MaxFaces)

Threads == 1 .. NThreads

Idle == [op |-> "idle"]
IdleThread == [pc |-> "idle"]

(***************************************************************************)
(* The state: the filter files, the module-level filter_cache (a dict: a  *)
(* function whose domain is the set of cached keys), the number of        *)
(* successful decodes of each file, the number of changes made to the     *)
(* files, the keys for which a call LoadFilterImage has come back with    *)
(* None for want of a decodable file, the call that has just returned,    *)
(* and the request threads inside load_filter_image.                      *)
(***************************************************************************)
EmptyCache == [k \in {} |-> None]

Init ==
    /\ disk \in InitDisks
    /\ filter_cache = EmptyCache
    /\ decodes = [k \in FilterNames |-> 0]
    /\ provisions = 0
    /\ failed = {}
    /\ call = Idle
    /\ threads = [t \in Threads |-> IdleThread]

\* The caller drops the result of the last call.
Discard ==
    /\ call # Idle
    /\ call' = Idle
    /\ UNCHANGED <<disk, filter_cache, decodes, provisions, failed, threads>>

\* A filter file is written, replaced or removed.
Provision(k, c) ==
    /\ call = Idle
    /\ provisions < MaxProvision
    /\ disk[k] # c
    /\ disk' = [disk EXCEPT ![k] = c]
    /\ provisions' = provisions + 1
    /\ UNCHANGED <<filter_cache, decodes, failed, call, threads>>

\* One call of load_filter_image(filter_name).
LoadFilterImage(filter_name) ==
    /\ call = Idle
    /\ filter_name \in FilterNames => decodes[filter_name] < MaxDecodes
    /\ \E r \in {load_filter_image(filter_name, filter_cache, decodes)} :
           /\ filter_cache' = r.cache
           /\ decodes' = r.dec
           /\ call' = [op |-> "load_filter_image", name |-> filter_name,
                       ret |-> r.ret, probed |-> r.probed, read |-> r.read,
                       cache0 |-> filter_cache]
           /\ failed' = IF r.probed /\ r.ret = None
                           THEN failed \cup {filter_name} ELSE failed
    /\ UNCHANGED <<disk, provisions, threads>>

\* One call of overlay_filter on a frame of the caller.
OverlayFilter(frame, filter_img, x, y, width, height, angle, alpha, env) ==
    /\ call = Idle
    /\ \E r \in {overlay_filter(frame, filter_img, x, y, width, height, angle,
                               alpha, env)} :
           call' = [op |-> "overlay_filter", frame0 |-> frame,
                    filter_img |-> filter_img, x |-> x, y |-> y,
                    width |-> width, height |-> height, angle |-> angle,
                    alpha |-> alpha, status |-> r.status, frame |-> r.frame,
                    past |-> r.past, rect |-> r.rect,
                    resized |-> IF width > 0 /\ height > 0
                                  THEN TransformAsset(filter_img, width, height,
                                                      angle, env)
                                  ELSE None]
    /\ UNCHANGED <<disk, filter_cache, decodes, provisions, failed, threads>>

\* One call of apply_filter_to_frame(frame, filter_name, faces) on a frame
\* in which the detector finds the faces `detected`.
ApplyFilterToFrame(frame, filter_name, faces, detected, env) ==
    /\ call = Idle
    /\ filter_name \in FilterNames => decodes[filter_name] < MaxDecodes
    /\ \E r \in {apply_filter_to_frame(frame, filter_name, faces, detected,
                                      filter_cache, decodes, env)} :
           /\ filter_cache' = r.st.cache
           /\ decodes' = r.st.dec
           /\ call' = [op |-> "apply_filter_to_frame", frame0 |-> frame,
                       name |-> filter_name, faces |-> faces,
                       detected |-> detected, status |-> r.st.status,
                       frame |-> r.st.frame, count |-> r.count,
                       detect_ran |-> r.detect_ran, loads |-> r.st.loads,
                       overlays |-> r.st.overlays, trace |-> r.st.trace,
                       written |-> r.st.written, cache0 |-> filter_cache]
    /\ UNCHANGED <<disk, provisions, failed, threads>>

\* The values passed for the unused parameter `faces`.
FacesArgs == {<<>>, <<LevelFace>>}

Next ==
    \/ Discard
    \/ /\ call = Idle
       /\ \E n \in CallNames \cup {NullName}, fa \in FacesArgs, d \in FaceLists,
             env \in Envs :
            ApplyFilterToFrame(GradientFrame, n, fa, d, env)

Spec == Init /\ [][Next]_vars

(***************************************************************************)
(* The compositor on its own: calls of overlay_filter with placements     *)
(* left of, across the borders of, inside and below the frame, sizes from *)
(* -1 (rejected by cv2.resize) to MaxWidth x MaxHeight, every right angle *)
(* and the opacities 0.0, 0.9 and 1.0.                                     *)
(***************************************************************************)
MaxWidth == 3
MaxHeight == 2

OverlayAssets == {Decode("bgra"), Decode("bgr"), OpaqueAsset}
XCenters == {-2, 0, 1, FrameW - 1}
YCenters == {0, 1, FrameH + 2}
Alphas == {0, 90, 100}

\* The rotation is skipped for angle 0: what warpAffine would leave does
\* not matter then.
EnvsFor(angle) == IF angle = 0 THEN {CHOOSE e \in Envs : e.edge} ELSE Envs

NextOverlay ==
    \/ Discard
    \/ /\ call = Idle
       /\ \E img \in OverlayAssets, x \in XCenters, y \in YCenters,
             width \in -1 .. MaxWidth, height \in 0 .. MaxHeight,
             angle \in {0} \cup RightAngles, alpha \in Alphas :
            \E env \in EnvsFor(angle) :
              OverlayFilter(GradientFrame, img, x, y, width, height, angle, alpha, env)

SpecOverlay == Init /\ [][NextOverlay]_vars

(***************************************************************************)
(* The cache on its own, with the filter files changing under it.         *)
(***************************************************************************)
NextCache ==
    \/ Discard
    \/ \E k \in CallNames : LoadFilterImage(k)
    \/ \E k \in FilterNames, c \in DiskStates : Provision(k, c)

SpecCache == Init /\ [][NextCache]_vars

(***************************************************************************)
(* Concurrent requests.  The development server handles each request in   *)
(* its own thread (app.run), so several threads can be inside             *)
(* load_filter_image at once; a thread is pre-empted between any two of   *)
(* its lines.  threads[t] is [pc, key, img, ret].                         *)
(***************************************************************************)
At(t, pc) == threads[t].pc = pc

Goto(t, pc) == threads' = [threads EXCEPT ![t].pc = pc]

Return(t, v) == threads' = [threads EXCEPT ![t].pc = "done", ![t].ret = v]

\* A request thread enters load_filter_image(k).
Enter(t, k) ==
    /\ At(t, "idle")
    /\ threads' = [threads EXCEPT ![t] = [pc |-> "line130", key |-> k,
                                          img |-> None, ret |-> None]]
    /\ UNCHANGED <<disk, filter_cache, decodes, provisions, failed, call>>

\* Line 130: if filter_name not in available_filters: return None
Line130(t) ==
    /\ At(t, "line130")
    /\ IF threads[t].key \notin DOMAIN available_filters
         THEN Return(t, None)
         ELSE Goto(t, "line134")
    /\ UNCHANGED <<disk, filter_cache, decodes, provisions, failed, call>>

\* Lines 134-135: if filter_name in filter_cache: return filter_cache[...]
Line134(t) ==
    /\ At(t, "line134")
    /\ IF threads[t].key \in DOMAIN filter_cache
         THEN Return(t, filter_cache[threads[t].key])
         ELSE Goto(t, "line139")
    /\ UNCHANGED <<disk, filter_cache, decodes, provisions, failed, call>>

\* Lines 138-139: if os.path.exists(filter_path)
Line139(t) ==
    /\ At(t, "line139")
    /\ IF disk[threads[t].key] = "missing"
         THEN Return(t, None)
         ELSE Goto(t, "line140")
    /\ UNCHANGED <<disk, filter_cache, decodes, provisions, failed, call>>

\* Lines 140-141: filter_img = cv2.imread(...); if filter_img is not None
Line140(t) ==
    /\ At(t, "line140")
    /\ decodes[threads[t].key] < MaxDecodes
    /\ IF disk[threads[t].key] = "corrupt"
         THEN /\ Return(t, None)
              /\ UNCHANGED decodes
         ELSE /\ threads' = [threads EXCEPT
                               ![t].pc = "line143",
                               ![t].img = NewAsset(threads[t].key, decodes)]
              /\ decodes' = [decodes EXCEPT ![threads[t].key] = @ + 1]
    /\ UNCHANGED <<disk, filter_cache, provisions, failed, call>>

\* Lines 143-144: filter_cache[filter_name] = filter_img; return filter_img
Line143(t) ==
    /\ At(t, "line143")
    /\ filter_cache' = [k \in DOMAIN filter_cache \cup {threads[t].key} |->
                          IF k = threads[t].key THEN threads[t].img
                                                ELSE filter_cache[k]]
    /\ Return(t, threads[t].img)
    /\ UNCHANGED <<disk, decodes, provisions, failed, call>>

\* The request that called load_filter_image goes on with its result.
Leave(t) ==
    /\ At(t, "done")
    /\ threads' = [threads EXCEPT ![t] = IdleThread]
    /\ UNCHANGED <<disk, filter_cache, decodes, provisions, failed, call>>

NextConc ==
    \E t \in Threads :
        \/ \E k \in CallNames : Enter(t, k)
        \/ Line130(t)
        \/ Line134(t)
        \/ Line139(t)
        \/ Line140(t)
        \/ Line143(t)
        \/ Leave(t)

SpecConc == Init /\ [][NextConc]_vars

(***************************************************************************)
(* The sunglasses resolver as a function of the landmarks and the frame   *)
(* size: what apply_sunglasses computes up to its call of overlay_filter  *)
(* (lines 221-243 and 249-250), which is the early return of line 227 or  *)
(* the arguments of that call.  It is applied to faces whose eye corners  *)
(* lie on the points of EyeCoords x EyeCoords (sixtieths: 0, 0.3, 0.45,   *)
(* 0.7, 1.0), level or upright, on the small frame and on a 640 x 480     *)
(* frame, and to landmark sets that end before landmark 263.              *)
(***************************************************************************)
sunglasses_placement(landmarks, frame_width, frame_height) ==
    Resolve("sunglasses", PointsOf("sunglasses", landmarks), frame_width,
            frame_height)

EyeCoords == {0, 18, 27, 42, 60}

\* A landmark set with the outer and inner corners of the left eye at ol
\* and il and those of the right eye at ir and or.
EyeFace(len, ol, il, ir, or) ==
    [len |-> len,
     pt |-> [i \in UsedIndices |->
               CASE i = LANDMARKS.left_eye_left -> ol
                 [] i = LANDMARKS.left_eye_right -> il
                 [] i = LANDMARKS.right_eye_left -> ir
                 [] i = LANDMARKS.right_eye_right -> or
                 [] OTHER -> <<30, 30>>]]

\* The pairs of outer corners on one row or one column.
EyePairs ==
    {pr \in (EyeCoords \X EyeCoords) \X (EyeCoords \X EyeCoords) :
       pr[1][1] = pr[2][1] \/ pr[1][2] = pr[2][2]}

EyeFaces ==
    {EyeFace(len, pr[1], <<25, 25>>, <<35, 25>>, pr[2]) :
       len \in {FullLen, LANDMARKS.right_eye_right}, pr \in EyePairs}

FrameSizes == {<<FrameW, FrameH>>, <<640, 480>>}

ResolveSunglasses(landmarks, frame_width, frame_height) ==
    /\ call = Idle
    /\ call' = [op |-> "apply_sunglasses", landmarks |-> landmarks,
                frame_width |-> frame_width, frame_height |-> frame_height,
                placement |-> sunglasses_placement(landmarks, frame_width,
                                                   frame_height)]
    /\ UNCHANGED <<disk, filter_cache, decodes, provisions, failed, threads>>

NextSunglasses ==
    \/ Discard
    \/ /\ call = Idle
       /\ \E landmarks \in EyeFaces, size \in FrameSizes :
            ResolveSunglasses(landmarks, size[1], size[2])

SpecSunglasses == Init /\ [][NextSunglasses]_vars

(***************************************************************************)
(* The handler of POST /process_frame.  A request carries image, which is *)
(* None when the JSON body has no "image", else a data URL whose payload  *)
(* decodes to a frame or to nothing (cv2.imdecode returns None), and      *)
(* filter_name, which is NullName when the body has no "filter".  The     *)
(* result is the response, [code, body], with the cache and the decode    *)
(* counts the call leaves.  An exception raised anywhere in the handler   *)
(* is caught at line 534 and answered with 500.                           *)
(***************************************************************************)
EmptyName == ""

\* cv2.imencode('.jpg', frame, ...) and base64: the JPEG of the frame.
Encode(frame) == [kind |-> "jpeg", w |-> frame.w, h |-> frame.h, of |-> frame.px]

DataUrl(frame) == [kind |-> "data_url", frame |-> frame]

Response(code, body, cache, dec) ==
    [code |-> code, body |-> body, cache |-> cache, dec |-> dec]

\* Lines 514-515 and 524-532, or the handler of line 534 when the call of
\* apply_filter_to_frame raised; r is what the call came to.
AfterApply(r) ==
    IF r.st.status = "raised"
      THEN Response(500, [error |-> "Failed to process frame. Please try again."],
                    r.st.cache, r.st.dec)
      ELSE Response(200,
                    [image |-> Encode(r.st.frame),
                     landmarks_detected |-> r.count > 0,
                     num_faces |-> r.count],
                    r.st.cache, r.st.dec)

process_frame(image, filter_name, detected, cache, dec, env) ==
    IF image = None
      THEN Response(400, [error |-> "No image received"], cache, dec)
    ELSE IF image.frame = None
      THEN Response(400, [error |-> "Failed to decode image"], cache, dec)
    ELSE IF filter_name \notin {NullName, EmptyName}
      THEN AfterApply(apply_filter_to_frame(image.frame, filter_name, <<>>,
                                            detected, cache, dec, env))
    ELSE Response(200,
                  [image |-> Encode(image.frame),
                   landmarks_detected |-> Len(detected) > 0,
                   num_faces |-> Len(detected)],
                  cache, dec)

Images == {None, DataUrl(None), DataUrl(GradientFrame)}
RequestNames == FilterNames \cup {NullName, EmptyName, UnknownName}

\* One request to /process_frame, for a frame in which the detector finds
\* the faces `detected`.
ProcessFrame(image, filter_name, detected, env) ==
    /\ call = Idle
    /\ filter_name \in FilterNames => decodes[filter_name] < MaxDecodes
    /\ \E r \in {process_frame(image, filter_name, detected, filter_cache,
                                decodes, env)} :
           /\ filter_cache' = r.cache
           /\ decodes' = r.dec
           /\ call' = [op |-> "process_frame", image |-> image,
                       name |-> filter_name, detected |-> detected,
                       code |-> r.code, body |-> r.body]
    /\ UNCHANGED <<disk, provisions, failed, threads>>

NextRequest ==
    \/ Discard
    \/ /\ call = Idle
       /\ \E image \in Images, n \in RequestNames, d \in FaceLists, env \in Envs :
            ProcessFrame(image, n, d, env)

SpecRequest == Init /\ [][NextRequest]_vars

(***************************************************************************)
(* The properties.                                                         *)
(***************************************************************************)
IsLoad == call.op = "load_filter_image"
IsOverlay == call.op = "overlay_filter"
IsApply == call.op = "apply_filter_to_frame"

\* The frame as it was when the loop of the call came to face i, and what
\* the resolver of the call's filter computes for that face.
FrameBefore(i) == IF i = 1 THEN call.frame0 ELSE call.trace[i - 1].after
ResolvedFor(i) ==
    Resolve(call.name, PointsOf(call.name, call.detected[i]),
            call.frame0.w, call.frame0.h)
IndicesOf(name) ==
    CASE name = "sunglasses" -> SunglassesIndices
      [] name \in {"hat", "crown"} -> HatIndices
      [] name = "mask" -> MaskIndices
      [] name = "spiderman" -> SpidermanIndices
      [] name = "full_face_mask" -> FullFaceMaskIndices
NeedsOutOfRange(i) ==
    \E j \in DOMAIN IndicesOf(call.name) :
        IndicesOf(call.name)[j] >= call.detected[i].len

\* C1: a placement whose computed width or height is not positive is a
\* silent no-op: the resolver of a face with such a placement returns
\* without raising and leaves the frame as it found it.
C1_DegeneratePlacementIsNoOp ==
    (IsApply /\ call.name \in FilterNames)
      => \A i \in DOMAIN call.trace :
           (/\ ResolvedFor(i).kind = "Placement"
            /\ (ResolvedFor(i).width <= 0 \/ ResolvedFor(i).height <= 0))
             => /\ call.trace[i].status = "returned"
                /\ call.trace[i].after = FrameBefore(i)

\* The sunglasses of a face whose eye corners fall on one pixel have
\* width 0 and height 0; the file of the filter is there, and the call
\* ends with the error cv2.resize raises for that size.
C1_Witness ==
    /\ IsApply
    /\ call.name = "sunglasses"
    /\ call.detected = <<PointFace>>
    /\ ResolvedFor(1).kind = "Placement"
    /\ ResolvedFor(1).width = 0
    /\ ResolvedFor(1).height = 0
    /\ call.loads = 1
    /\ call.overlays = 1
    /\ call.status = "raised"

\* C2: when several requests call load_filter_image for the same
\* recognised key concurrently, the file is decoded at most once, the
\* cache entry is written once and never replaced, and every caller gets
\* the identical asset: no key is decoded twice, and a caller that comes
\* back with an asset holds the very object the cache holds for its key.
C2_ConcurrentFirstLoadIsExclusive ==
    /\ \A k \in FilterNames : decodes[k] <= 1
    /\ \A t \in Threads :
         (At(t, "done") /\ threads[t].ret # None)
           => /\ threads[t].key \in DOMAIN filter_cache
              /\ filter_cache[threads[t].key] = threads[t].ret

\* Two requests for the same key have both decoded its file, and the one
\* that returned first holds an asset the cache no longer holds.
C2_Witness ==
    \E t \in Threads, u \in Threads :
        /\ t # u
        /\ At(t, "done") /\ At(u, "done")
        /\ threads[t].key = threads[u].key
        /\ threads[t].ret # None /\ threads[u].ret # None
        /\ threads[t].ret # threads[u].ret
        /\ decodes[threads[t].key] = 2
        /\ filter_cache[threads[t].key] = threads[u].ret

\* C3: in a sequential series of calls, once a key is in the cache its
\* entry is never removed or replaced, its file is never decoded again,
\* and every later call for it returns the cached object itself without
\* looking at the disk.
C3_CachedKeyIsServedFromMemory ==
    [][\A k \in DOMAIN filter_cache :
         /\ k \in DOMAIN filter_cache'
         /\ filter_cache'[k] = filter_cache[k]
         /\ decodes'[k] = decodes[k]
         /\ (call = Idle /\ call'.op = "load_filter_image" /\ call'.name = k)
              => /\ call'.ret = filter_cache[k]
                 /\ ~call'.probed
                 /\ ~call'.read]_vars

\* A call for a key that was already cached has returned the cached asset,
\* after the file behind it was changed.
C3_Witness ==
    /\ IsLoad
    /\ call.name \in DOMAIN call.cache0
    /\ call.ret = call.cache0[call.name]
    /\ call.ret.img # None
    /\ provisions > 0
    /\ disk[call.name] = "missing"

\* C4: a call for a recognised, uncached key whose file is missing or
\* does not decode returns None and leaves the cache as it was, without an
\* entry for the key; a call for a recognised, uncached key whose file is
\* there and decodes reads it, returns the asset and caches it, whether or
\* not earlier calls for the key have failed.
C4_FailedLoadIsNotCached ==
    (IsLoad /\ call.name \in FilterNames /\ call.name \notin DOMAIN call.cache0)
      => IF disk[call.name] \in {"missing", "corrupt"}
           THEN /\ call.ret = None
                /\ filter_cache = call.cache0
                /\ call.name \notin DOMAIN filter_cache
           ELSE /\ call.probed /\ call.read
                /\ call.ret # None
                /\ call.ret.img = Decode(disk[call.name])
                /\ call.name \in DOMAIN filter_cache
                /\ filter_cache[call.name] = call.ret

\* A key whose load had failed is loaded and cached by a later call, once
\* its file has been provided.
C4_Witness ==
    /\ IsLoad
    /\ call.name \in failed
    /\ call.name \notin DOMAIN call.cache0
    /\ call.ret # None
    /\ call.name \in DOMAIN filter_cache
    /\ filter_cache[call.name] = call.ret

\* C5: apply_filter_to_frame with a filter name that is None or not a key
\* of available_filters returns the frame unchanged and the count 0,
\* whatever the faces argument and the faces in the frame, without running
\* the detector, calling the cache or the compositor, or changing the
\* cache.
C5_UnknownFilterIsIdentity ==
    (IsApply /\ call.name \notin FilterNames)
      => /\ call.status = "returned"
         /\ call.frame = call.frame0
         /\ call.count = 0
         /\ ~call.detect_ran
         /\ call.loads = 0
         /\ call.overlays = 0
         /\ call.trace = <<>>
         /\ filter_cache = call.cache0

\* The call names "nonexistent_filter", is handed a non-empty faces
\* argument, and the frame holds two faces the filters can be placed on.
C5_Witness ==
    /\ IsApply
    /\ call.name = UnknownName
    /\ call.faces # <<>>
    /\ call.detected = <<LevelFace, LevelFace>>
    /\ call.count = 0
    /\ call.frame = call.frame0

\* C6: when a landmark index the filter needs is out of range for a face,
\* the resolver returns for that face without raising and leaves the
\* frame as it was before the face, and the loop goes on to the faces
\* after it, in the order of the detector.
C6_OutOfRangeLandmarkSkipsFace ==
    (IsApply /\ call.name \in FilterNames)
      => \A i \in DOMAIN call.trace :
           NeedsOutOfRange(i)
             => /\ ResolvedFor(i) = Insufficient
                /\ call.trace[i].status = "returned"
                /\ call.trace[i].after = FrameBefore(i)
                /\ i < Len(call.detected) => i + 1 \in DOMAIN call.trace

\* A face with landmarks 0 .. 453 only is skipped by a filter that reads
\* landmark 454, and the face after it gets the filter.
C6_Witness ==
    /\ IsApply
    /\ call.name \in {"hat", "mask"}
    /\ call.detected = <<ShortFace, LevelFace>>
    /\ NeedsOutOfRange(1)
    /\ call.trace[1].after = call.frame0
    /\ Len(call.trace) = 2
    /\ call.trace[2].after # call.frame0

\* C7: for a recognised filter, the count apply_filter_to_frame returns is
\* the number of faces the detector reported landmarks for, whether or not
\* anything was blended for them, and 0 when it reported none.
C7_CountIsFacesWithLandmarks ==
    (IsApply /\ call.name \in FilterNames /\ call.status = "returned")
      => /\ call.detect_ran
         /\ call.count = Len(call.detected)

\* Faces are counted for which nothing was blended: the asset of the
\* filter could not be loaded, or the placement fell outside the frame.
C7_Witness ==
    /\ IsApply
    /\ call.status = "returned"
    /\ call.count = 2
    /\ call.frame = call.frame0
    /\ \/ call.name = "crown" /\ call.loads = 2 /\ call.overlays = 0
       \/ call.name = "mask" /\ call.overlays = 2

\* The box of an overlay_filter call, as rows and columns of the frame:
\* [x - width // 2, x - width // 2 + width) x
\* [y - height // 2, y - height // 2 + height).
BoxX1 == call.x - (call.width \div 2)
BoxY1 == call.y - (call.height \div 2)
InBox(p) ==
    /\ BoxY1 <= p[1] /\ p[1] < BoxY1 + call.height
    /\ BoxX1 <= p[2] /\ p[2] < BoxX1 + call.width
BoxOutsideFrame ==
    \A p \in Cells(call.frame0.w, call.frame0.h) : ~InBox(p)
BoxInsideFrame ==
    /\ 0 <= BoxX1 /\ BoxX1 + call.width <= call.frame0.w
    /\ 0 <= BoxY1 /\ BoxY1 + call.height <= call.frame0.h
\* The pixel of the resized and rotated asset that lies on frame cell p.
AssetPixelOn(p) == call.resized.px[<<p[1] - BoxY1, p[2] - BoxX1>>]
ValidSize == call.width > 0 /\ call.height > 0
FullyOpaque(img) == img.ch = 4 /\ \A p \in DOMAIN img.px : img.px[p].a = 255

\* C8: overlay_filter changes no pixel of the frame outside the
\* intersection of the frame with the placed box; when a box of positive
\* size lies entirely outside the frame the call returns the frame
\* unchanged; the frame has the same dimensions before and after.
C8_OverlayStaysInsideBox ==
    IsOverlay
      => /\ call.frame.w = call.frame0.w
         /\ call.frame.h = call.frame0.h
         /\ DOMAIN call.frame.px = DOMAIN call.frame0.px
         /\ \A p \in DOMAIN call.frame0.px :
              ~InBox(p) => call.frame.px[p] = call.frame0.px[p]
         /\ (ValidSize /\ BoxOutsideFrame)
              => call.status = "returned" /\ call.frame = call.frame0

\* A box that sticks out of the frame on the left has been blended: the
\* frame has changed inside the box and nowhere else.
C8_Witness ==
    /\ IsOverlay
    /\ call.status = "returned"
    /\ BoxX1 < 0
    /\ BoxX1 + call.width > 0
    /\ \E p \in DOMAIN call.frame0.px :
         InBox(p) /\ call.frame.px[p] # call.frame0.px[p]
    /\ \E p \in DOMAIN call.frame0.px :
         ~InBox(p) /\ call.frame.px[p] = call.frame0.px[p]

\* The case of C9: a box of positive size fully inside the frame, opacity
\* 1.0, an asset whose alpha channel is 255 everywhere.
OpaqueReplacementCase ==
    /\ IsOverlay
    /\ ValidSize
    /\ BoxInsideFrame
    /\ call.alpha = 100
    /\ FullyOpaque(call.filter_img)

\* C9 as stated: in that case every frame pixel in the box is exactly the
\* pixel of the resized and rotated asset that lies on it.
C9_AsStated ==
    OpaqueReplacementCase
      => /\ call.status = "returned"
         /\ \A p \in DOMAIN call.frame0.px :
              InBox(p) => call.frame.px[p] = AssetPixelOn(p).c

\* C9: in that case every frame pixel in the box on which the resized and
\* rotated asset is opaque (alpha 255) is exactly the pixel of that asset,
\* and without rotation (angle 0) that is every pixel of the box.  The
\* cells of the rotated asset that no source pixel maps to are not opaque
\* in general, and the frame keeps a share of its own value there.
C9_OpaqueReplacement ==
    OpaqueReplacementCase
      => /\ call.status = "returned"
         /\ \A p \in DOMAIN call.frame0.px :
              (InBox(p) /\ AssetPixelOn(p).a = 255)
                => call.frame.px[p] = AssetPixelOn(p).c
         /\ call.angle = 0
              => \A p \in DOMAIN call.frame0.px :
                   InBox(p) => call.frame.px[p] = AssetPixelOn(p).c

\* An opaque asset, enlarged and not rotated, has replaced the box.
C9_Witness ==
    /\ OpaqueReplacementCase
    /\ call.angle = 0
    /\ call.width > AssetW
    /\ call.frame # call.frame0
    /\ \A p \in DOMAIN call.frame0.px :
         InBox(p) => call.frame.px[p] = AssetPixelOn(p).c

\* C10: for a placement of positive width and height, overlay_filter with
\* opacity 0.0 returns and leaves every pixel of the frame as it was, for
\* assets with an alpha channel and for assets without one.
C10_ZeroOpacityIsIdentity ==
    (IsOverlay /\ ValidSize /\ call.alpha = 0)
      => /\ call.status = "returned"
         /\ call.frame = call.frame0

\* A 3-channel asset has been blended at opacity 0.0 over a box that
\* overlaps the frame, after a rotation.
C10_Witness ==
    /\ IsOverlay
    /\ call.alpha = 0
    /\ call.past
    /\ call.filter_img.ch = 3
    /\ call.angle # 0
    /\ BoxInsideFrame
    /\ call.frame = call.frame0

IsSunglasses == call.op = "apply_sunglasses"
HasEyeLandmarks ==
    \A j \in DOMAIN SunglassesIndices : SunglassesIndices[j] < call.landmarks.len
OuterLeft ==
    <<(call.landmarks.pt[LANDMARKS.left_eye_left][1] * call.frame_width) \div Den,
      (call.landmarks.pt[LANDMARKS.left_eye_left][2] * call.frame_height) \div Den>>
OuterRight ==
    <<(call.landmarks.pt[LANDMARKS.right_eye_right][1] * call.frame_width) \div Den,
      (call.landmarks.pt[LANDMARKS.right_eye_right][2] * call.frame_height) \div Den>>
OuterDistSquared ==
    (OuterRight[1] - OuterLeft[1]) * (OuterRight[1] - OuterLeft[1])
    + (OuterRight[2] - OuterLeft[2]) * (OuterRight[2] - OuterLeft[2])
\* n = trunc(num / den * d) for the distance d >= 0 of the outer corners.
IsTruncOf(n, num, den) ==
    /\ n >= 0
    /\ n * n * den * den <= num * num * OuterDistSquared
    /\ num * num * OuterDistSquared < (n + 1) * (n + 1) * den * den
\* The angle in degrees of the vector from the left to the right outer
\* corner (the y axis points down), for the level and upright vectors.
OuterAngleIs(a) ==
    \/ a = 0 /\ OuterRight[2] = OuterLeft[2] /\ OuterRight[1] >= OuterLeft[1]
    \/ a = 180 /\ OuterRight[2] = OuterLeft[2] /\ OuterRight[1] < OuterLeft[1]
    \/ a = 90 /\ OuterRight[1] = OuterLeft[1] /\ OuterRight[2] > OuterLeft[2]
    \/ a = -90 /\ OuterRight[1] = OuterLeft[1] /\ OuterRight[2] < OuterLeft[2]
IsScenario ==
    /\ IsSunglasses
    /\ HasEyeLandmarks
    /\ call.frame_width = 640 /\ call.frame_height = 480
    /\ call.landmarks.pt[LANDMARKS.left_eye_left] = <<18, 27>>
    /\ call.landmarks.pt[LANDMARKS.right_eye_right] = <<42, 27>>

\* C12: for a face with the four eye landmarks the sunglasses resolver
\* calls the compositor with the integer midpoint of the denormalised
\* outer eye corners as centre, width trunc(2.2 d) and height trunc(0.6 d)
\* for the pixel distance d of the outer corners, the angle of the
\* outer-corner vector and opacity 0.9; on a 640 x 480 frame with the outer
\* corners at (0.3, 0.45) and (0.7, 0.45) that is centre (320, 216), angle
\* 0, width 563 and height 153.
C12_SunglassesPlacement ==
    (IsSunglasses /\ HasEyeLandmarks)
      => /\ call.placement.kind = "Placement"
         /\ call.placement.x = (OuterLeft[1] + OuterRight[1]) \div 2
         /\ call.placement.y = (OuterLeft[2] + OuterRight[2]) \div 2
         /\ IsTruncOf(call.placement.width, 11, 5)
         /\ IsTruncOf(call.placement.height, 3, 5)
         /\ OuterAngleIs(call.placement.angle)
         /\ call.placement.alpha = 90
         /\ IsScenario
              => /\ call.placement.x = 320 /\ call.placement.y = 216
                 /\ call.placement.angle = 0
                 /\ call.placement.width = 563
                 /\ call.placement.height = 153

\* The resolver has been applied to the 640 x 480 scenario.
C12_Witness ==
    /\ IsScenario
    /\ OuterLeft = <<192, 216>>
    /\ OuterRight = <<448, 216>>
    /\ call.placement = Placement(320, 216, 563, 153, 0, 90)

IsRequest == call.op = "process_frame"

\* C13: a request to /process_frame with a decodable image and a filter
\* that is absent or one of the six recognised names is answered with
\* status 200 and a body holding the encoded frame, landmarks_detected and
\* num_faces, whatever landmark sets the detector reports.
C13_ProcessFrameAnswers200 ==
    (/\ IsRequest
     /\ call.image # None
     /\ call.image.frame # None
     /\ call.name \in FilterNames \cup {NullName})
      => /\ call.code = 200
         /\ DOMAIN call.body = {"image", "landmarks_detected", "num_faces"}
         /\ call.body.image.w = call.image.frame.w
         /\ call.body.image.h = call.image.frame.h

\* A request with a decodable image and the filter "sunglasses", for a
\* frame with a face whose eye corners fall on one pixel after a face that
\* is fine, is answered with 500 and an error body.
C13_Witness ==
    /\ IsRequest
    /\ call.image = DataUrl(GradientFrame)
    /\ call.name = "sunglasses"
    /\ call.detected = <<LevelFace, PointFace>>
    /\ call.code = 500
    /\ DOMAIN call.body = {"error"}

\* C14: whenever overlay_filter gets past its out-of-frame return with
\* width > 0 and height > 0, the rectangle of the frame it writes and the
\* rectangle of the resized asset it reads are both non-empty, have the
\* same width and the same height, and lie within the frame and within
\* the resized asset, which is width x height.
C14_RectanglesMatch ==
    (IsOverlay /\ ValidSize /\ call.past)
      => /\ call.rect.kind = "rect"
         /\ call.rect.frame_x1 < call.rect.frame_x2
         /\ call.rect.frame_y1 < call.rect.frame_y2
         /\ call.rect.filter_x1 < call.rect.filter_x2
         /\ call.rect.filter_y1 < call.rect.filter_y2
         /\ call.rect.frame_x2 - call.rect.frame_x1
              = call.rect.filter_x2 - call.rect.filter_x1
         /\ call.rect.frame_y2 - call.rect.frame_y1
              = call.rect.filter_y2 - call.rect.filter_y1
         /\ 0 <= call.rect.frame_x1 /\ call.rect.frame_x2 <= call.frame0.w
         /\ 0 <= call.rect.frame_y1 /\ call.rect.frame_y2 <= call.frame0.h
         /\ call.resized.w = call.width /\ call.resized.h = call.height
         /\ 0 <= call.rect.filter_x1 /\ call.rect.filter_x2 <= call.resized.w
         /\ 0 <= call.rect.filter_y1 /\ call.rect.filter_y2 <= call.resized.h
         /\ \A p \in DOMAIN call.frame0.px :
              InBox(p) <=> /\ call.rect.frame_y1 <= p[1] /\ p[1] < call.rect.frame_y2
                           /\ call.rect.frame_x1 <= p[2] /\ p[2] < call.rect.frame_x2

\* A box that sticks out of the frame at the left and at the top has been
\* blended: the asset is read from an inner corner on.
C14_Witness ==
    /\ IsOverlay
    /\ ValidSize
    /\ call.past
    /\ call.rect.filter_x1 > 0
    /\ call.rect.filter_y1 > 0
    /\ call.rect.filter_x2 = call.width
    /\ call.rect.frame_x1 = 0
    /\ call.rect.frame_y1 = 0
    /\ call.frame # call.frame0

====
